---- MODULE Spec2Model ----
(***************************************************************************)
(* Model of lightning_pose/data/dali.py: the context windower              *)
(* get_context_from_seq (one call, statement by statement, over a heap of  *)
(* tensor storages) and the LightningWrapper iterator around a DALI        *)
(* reader.                                                                 *)
(*                                                                         *)
(* A tensor is a record [storage, dtype, device, shape]; its elements live *)
(* in heap[storage], a flat row-major sequence.  One element stands for    *)
(* one (3, H, W) image: `val` is its pixel value and `frame` is the row of *)
(* img_seq (1-based) it was copied from, 0 for an element that was not     *)
(* copied from the input (zero fill, a caller's write).                    *)
(***************************************************************************)
EXTENDS Integers, Sequences, FiniteSets, TLC

VARIABLES
    img_seq,         \* the argument tensor
    context_length,  \* the argument context_length
    heap,            \* storage name -> flat sequence of elements
    train_seq,       \* local: the output tensor, Null before torch.zeros
    padded_seq,      \* local: the padded tensor, Null before torch.cat
    i,               \* loop variable of `for i in range(seq_len)` (0-based)
    pc,              \* position in get_context_from_seq
    err,             \* name of the exception raised, "none" if none
    raisedAt,        \* statement that raised it, "none" if none
    result,          \* the tensor returned, Null if none
    img0,            \* contents of the argument when the call started
    kwargs,          \* LightningWrapper: num_batches keyword, {} if absent
    num_batches,     \* LightningWrapper.num_batches
    batch_size,      \* sequences per step of the wrapped reader
    auto_reset,      \* whether the wrapped reader rewinds when exhausted
    steps,           \* outputs the wrapped reader yields, in order
    pos,             \* steps the wrapped reader has yielded
    fetched,         \* out of the last super().__next__(), <<>> if none
    ret,             \* value of the last __next__, <<>> if none
    stopped          \* the last __next__ raised StopIteration

vars == <<img_seq, context_length, heap, train_seq, padded_seq, i, pc, err,
          raisedAt, result, img0, kwargs, num_batches, batch_size,
          auto_reset, steps, pos, fetched, ret, stopped>>

windowerVars == <<img_seq, context_length, heap, train_seq, padded_seq, i,
                  pc, err, raisedAt, result, img0>>

wrapperVars == <<kwargs, num_batches, batch_size, auto_reset, steps, pos,
                 fetched, ret, stopped>>

----------------------------------------------------------------------------
(* Bounds of the model *)

MaxSeqLen == 3

MaxContext == 8

MaxSteps == 2

MaxBatches == 2

----------------------------------------------------------------------------
(* Numbers and element types *)

\* width of the significand of torch's default dtype, float32
MantissaBits == 24

RECURSIVE Log2Floor(_)
Log2Floor(v) == IF v < 2 THEN 0 ELSE 1 + Log2Floor(v \div 2)

\* nearest float32 to the non-negative integer v, ties to even
Float32Round(v) ==
    LET e == Log2Floor(v)
    IN  IF e < MantissaBits
        THEN v
        ELSE LET ulp  == 2 ^ (e - MantissaBits + 1)
                 q    == v \div ulp
                 r    == v % ulp
                 half == ulp \div 2
             IN  IF r < half \/ (r = half /\ q % 2 = 0)
                 THEN q * ulp
                 ELSE (q + 1) * ulp

\* smallest positive integer float32 cannot hold
BigPixel == 2 ^ MantissaBits + 1

DTypes == {"float32", "float64", "int64"}

Devices == {"cpu", "cuda"}

\* pixel values a tensor of the given dtype can hold, among those modelled
Pixels(dtype) == {v \in {1, BigPixel - 1, BigPixel} : dtype = "float32" => Float32Round(v) = v}

\* value stored when v is written into a tensor of the given dtype
Convert(v, dtype) == IF dtype = "float32" THEN Float32Round(v) ELSE v

ZeroElem == [frame |-> 0, val |-> 0]

Null == [storage |-> "none", dtype |-> "none", device |-> "none", shape |-> <<>>]

Storages == {"img_seq", "padded_seq", "train_seq"}

Min(a, b) == IF a < b THEN a ELSE b

Max(a, b) == IF a < b THEN b ELSE a

----------------------------------------------------------------------------
(* get_context_from_seq *)

\* seq_len = img_seq.shape[0]
seq_len == img_seq.shape[1]

\* img_shape = img_seq.shape[1:]
img_shape == Tail(img_seq.shape)

\* fixed pad width: each pad tiles its image twice
PadWidth == 2

\* dtype torch.zeros gives when none is passed
DefaultDType == "float32"

\* variant: train_seq made in the storage of the argument
TrainSeqStorage_input == "img_seq"

\* storage torch.zeros allocates for train_seq
TrainSeqStorage == "train_seq"

\* variant: the window length fixed at 5 whatever context_length is
ZerosShape_five(n, cl, ishape) == <<n, 5>> \o ishape

\* shape of train_seq: (seq_len, context_length, *img_shape)
ZerosShape(n, cl, ishape) == <<n, cl>> \o ishape

\* torch.tile(x.unsqueeze(0), (reps, 1, 1, 1))
Tile(x, reps) == [k \in 1..reps |-> x]

\* img_seq[0]
FirstFrame(seq) == seq[1]

\* variant: the end pad taken from the first image
LastFrame_first(seq) == seq[1]

\* img_seq[-1]
LastFrame(seq) == seq[Len(seq)]

\* variant: the two pads exchanged
Cat_swapped(pad_start, seq, pad_end) == pad_end \o seq \o pad_start

\* torch.cat((pad_start, img_seq, pad_end), dim=0)
Cat(pad_start, seq, pad_end) == pad_start \o seq \o pad_end

\* variant: the slice starts one position late
SliceStart_next(k) == k + 1

\* start of the slice taken for position i, as a Python offset
SliceStart(k) == k

\* variant: a slice past the end repeats the last row instead of stopping
Slice_repeating(seq, a, cl) == [k \in 1..cl |-> seq[Min(a + k, Len(seq))]]

\* padded_seq[a : a + cl]: Python clamps the slice to the sequence
Slice(seq, a, cl) == SubSeq(seq, a + 1, Min(a + cl, Len(seq)))

\* whether a source of m rows can be assigned to a destination of cl rows:
\* equal, or a single row that broadcasts
Assignable(m, cl) == m = cl \/ m = 1

\* the rows written into train_seq[i] from the slice src (broadcast when
\* src has one row), converted to the destination's dtype
Stored(src, cl, dtype) ==
    [k \in 1..cl |->
        LET e == IF Len(src) = 1 THEN src[1] ELSE src[k]
        IN  [frame |-> e.frame, val |-> Convert(e.val, dtype)]]

\* flat with rows a+1 .. a+Len(rows) replaced by rows
Overwrite(flat, a, rows) ==
    [k \in 1..Len(flat) |->
        IF k > a /\ k <= a + Len(rows) THEN rows[k - a] ELSE flat[k]]

\* train_seq[k], k a Python index: row k of a tensor of shape (n, cl, ...)
Window(t, k) == SubSeq(heap[t.storage], k * t.shape[2] + 1, (k + 1) * t.shape[2])

\* lines 115-119: shapes and torch.zeros
Zeros ==
    /\ pc = "call"
    /\ IF context_length < 0
       THEN /\ pc' = "error"
            /\ err' = "RuntimeError"
            /\ raisedAt' = "zeros"
            /\ UNCHANGED <<train_seq, heap>>
       ELSE LET shape == ZerosShape(seq_len, context_length, img_shape)
            IN  /\ train_seq' = [storage |-> TrainSeqStorage,
                                 dtype   |-> DefaultDType,
                                 device  |-> img_seq.device,
                                 shape   |-> shape]
                /\ heap' = [heap EXCEPT ![TrainSeqStorage] =
                                [k \in 1..(shape[1] * shape[2]) |-> ZeroElem]]
            /\ pc' = "pad"
            /\ UNCHANGED <<err, raisedAt>>
    /\ UNCHANGED <<img_seq, context_length, padded_seq, i, result, img0>>
    /\ UNCHANGED wrapperVars

\* lines 122-125: the two pads and torch.cat
Pad ==
    /\ pc = "pad"
    /\ IF seq_len = 0
       THEN /\ pc' = "error"
            /\ err' = "IndexError"
            /\ raisedAt' = "pad"
            /\ UNCHANGED <<padded_seq, heap, i>>
       ELSE LET seq       == heap[img_seq.storage]
                pad_start == Tile(FirstFrame(seq), PadWidth)
                pad_end   == Tile(LastFrame(seq), PadWidth)
                padded    == Cat(pad_start, seq, pad_end)
            IN  /\ padded_seq' = [storage |-> "padded_seq",
                                  dtype   |-> img_seq.dtype,
                                  device  |-> img_seq.device,
                                  shape   |-> <<Len(padded)>> \o img_shape]
                /\ heap' = [heap EXCEPT !["padded_seq"] = padded]
                /\ i' = 0
                /\ pc' = "loop"
                /\ UNCHANGED <<err, raisedAt>>
    /\ UNCHANGED <<img_seq, context_length, train_seq, result, img0>>
    /\ UNCHANGED wrapperVars

\* lines 127-129: one iteration, train_seq[i] = padded_seq[i : i + context_length]
LoopStore ==
    /\ pc = "loop"
    /\ i < seq_len
    /\ LET src  == Slice(heap[padded_seq.storage], SliceStart(i), context_length)
           rows == train_seq.shape[2]
       IN  IF Assignable(Len(src), rows)
           THEN /\ heap' = [heap EXCEPT ![train_seq.storage] =
                               Overwrite(@, i * rows, Stored(src, rows, train_seq.dtype))]
                /\ i' = i + 1
                /\ UNCHANGED <<pc, err, raisedAt>>
           ELSE /\ pc' = "error"
                /\ err' = "RuntimeError"
                /\ raisedAt' = "store"
                /\ UNCHANGED <<heap, i>>
    /\ UNCHANGED <<img_seq, context_length, train_seq, padded_seq, result, img0>>
    /\ UNCHANGED wrapperVars

\* line 130: the loop is over, return train_seq
Return ==
    /\ pc = "loop"
    /\ i = seq_len
    /\ result' = train_seq
    /\ pc' = "returned"
    /\ UNCHANGED <<img_seq, context_length, heap, train_seq, padded_seq, i,
                   err, raisedAt, img0>>
    /\ UNCHANGED wrapperVars

\* the caller, which owns the returned batch, writes one element of it
WriteResult ==
    /\ pc = "returned"
    /\ \E k \in 1..Len(heap[result.storage]) :
          heap' = [heap EXCEPT ![result.storage][k] =
                      [frame |-> 0, val |-> Convert(BigPixel, result.dtype)]]
    /\ pc' = "written"
    /\ UNCHANGED <<img_seq, context_length, train_seq, padded_seq, i, err,
                   raisedAt, result, img0>>
    /\ UNCHANGED wrapperVars

\* the frames of an input of n images: row k is image k
InputSeqs(n, dtype) ==
    {[k \in 1..n |-> [frame |-> k, val |-> f[k]]] : f \in [1..n -> Pixels(dtype)]}

\* idle state of the wrapper, when only the windower runs
WrapperIdle ==
    /\ kwargs = {}
    /\ num_batches = 1
    /\ batch_size = 1
    /\ auto_reset = FALSE
    /\ steps = <<>>
    /\ pos = 0
    /\ fetched = <<>>
    /\ ret = <<>>
    /\ stopped = FALSE

\* a call get_context_from_seq(img_seq, context_length) about to start
Init ==
    /\ \E n \in 0..MaxSeqLen, dtype \in DTypes, device \in Devices,
          ishape \in {<<3, 1, 1>>, <<3, 2, 3>>} :
          /\ img_seq = [storage |-> "img_seq", dtype |-> dtype,
                        device |-> device, shape |-> <<n>> \o ishape]
          /\ img0 \in InputSeqs(n, dtype)
    /\ heap = [s \in Storages |-> IF s = "img_seq" THEN img0 ELSE <<>>]
    /\ context_length \in (-2)..MaxContext
    /\ train_seq = Null
    /\ padded_seq = Null
    /\ i = 0
    /\ pc = "call"
    /\ err = "none"
    /\ raisedAt = "none"
    /\ result = Null
    /\ WrapperIdle

Next == Zeros \/ Pad \/ LoopStore \/ Return \/ WriteResult

Spec == Init /\ [][Next]_vars

----------------------------------------------------------------------------
(* LightningWrapper *)

\* __init__: self.num_batches = kwargs.pop("num_batches", 1)
PopNumBatches(kw) == IF kw = {} THEN 1 ELSE CHOOSE v \in kw : TRUE

\* variant: the length taken from what the reader has left
__len___remaining == Len(steps) - pos

\* __len__
__len__ == num_batches

\* out[0]["x"][0, :, :, :, :]: the sequence at batch index 0
FirstSequence(out) == out[1]

\* torch.tensor(x, dtype=torch.float)
ToFloat(x) == [k \in 1..Len(x) |-> Convert(x[k], "float32")]

\* __next__ when the wrapped reader yields a step
NextBatch ==
    /\ pos < Len(steps)
    /\ fetched' = steps[pos + 1]
    /\ ret' = ToFloat(FirstSequence(steps[pos + 1]))
    /\ pos' = pos + 1
    /\ stopped' = FALSE
    /\ UNCHANGED <<kwargs, num_batches, batch_size, auto_reset, steps>>
    /\ UNCHANGED windowerVars

\* __next__ when the wrapped reader is exhausted: StopIteration passes through
NextExhausted ==
    /\ pos = Len(steps)
    /\ stopped' = TRUE
    /\ pos' = IF auto_reset THEN 0 ELSE pos
    /\ UNCHANGED <<kwargs, num_batches, batch_size, steps, auto_reset, fetched, ret>>
    /\ UNCHANGED windowerVars

\* sequences the reader can yield: one pixel value per frame, dtype FLOAT
ReaderSeqs == [1..2 -> Pixels("float32")]

\* idle state of the windower, when only the wrapper runs
WindowerIdle ==
    /\ img_seq = [storage |-> "img_seq", dtype |-> "float32",
                  device |-> "cpu", shape |-> <<0, 3, 1, 1>>]
    /\ img0 = <<>>
    /\ heap = [s \in Storages |-> <<>>]
    /\ context_length = 0
    /\ train_seq = Null
    /\ padded_seq = Null
    /\ i = 0
    /\ pc = "idle"
    /\ err = "none"
    /\ raisedAt = "none"
    /\ result = Null

\* a LightningWrapper just constructed around a reader
InitWrapper ==
    /\ kwargs \in {{}} \cup {{v} : v \in 0..MaxBatches}
    /\ num_batches = PopNumBatches(kwargs)
    /\ batch_size \in 1..2
    /\ auto_reset \in BOOLEAN
    /\ \E len \in 0..MaxSteps : steps \in [1..len -> [1..batch_size -> ReaderSeqs]]
    /\ pos = 0
    /\ fetched = <<>>
    /\ ret = <<>>
    /\ stopped = FALSE
    /\ WindowerIdle

NextWrapper == NextBatch \/ NextExhausted

SpecWrapper == InitWrapper /\ [][NextWrapper]_vars

----------------------------------------------------------------------------
(* Properties *)

\* the call has ended, by return (and a later caller's write) or by raise
Terminal == pc \in {"returned", "written", "error"}

\* the input with two copies of its first image before it and two copies
\* of its last image after it
PaddedInput ==
    <<img0[1], img0[1]>> \o img0 \o <<img0[Len(img0)], img0[Len(img0)]>>

\* element e is a copy of input row k, or cannot be told from one
IsFrame(e, k) == e.frame = k \/ e.val = img0[k].val

\* the rows of the input the elements of a window were copied from
Frames(w) == [k \in 1..Len(w) |-> w[k].frame]

\* C1: for seq_len >= 1 and context_length in 1..5 the window returned for
\* position k is padded[k : k + context_length], padded being the input with
\* two copies of its first frame prepended and two of its last appended.
C1_WindowsArePaddedSlices ==
    (pc = "returned" /\ seq_len >= 1 /\ context_length \in 1..5) =>
        /\ Len(PaddedInput) = seq_len + 4
        /\ \A k \in 0..(seq_len - 1) :
              /\ Len(Window(result, k)) = context_length
              /\ \A j \in 1..context_length :
                    /\ Window(result, k)[j].frame = PaddedInput[k + j].frame
                    /\ result.dtype = img_seq.dtype =>
                          Window(result, k)[j].val = PaddedInput[k + j].val

C1_Witness ==
    /\ pc = "returned"
    /\ seq_len = 3
    /\ context_length = 5
    /\ Frames(Window(result, 0)) = <<1, 1, 1, 2, 3>>
    /\ Frames(Window(result, 1)) = <<1, 1, 2, 3, 3>>
    /\ Frames(Window(result, 2)) = <<1, 2, 3, 3, 3>>

\* C2 as stated: for every accepted positive context_length the window for
\* position k holds original frame k with at most one more entry before it
\* than after it.
C2_CenteredForEveryLength ==
    (pc = "returned" /\ seq_len >= 1 /\ context_length >= 1) =>
        \A k \in 0..(seq_len - 1) :
            \E j \in 1..context_length :
                /\ IsFrame(Window(result, k)[j], k + 1)
                /\ (j - 1) - (context_length - j) \in {0, 1}

\* C2 amended: for context_length 4 or 5 the window for position k holds
\* original frame k at offset 2, two entries before it and context_length - 3
\* after it; for context_length 1..3 no entry of the window comes after
\* frame k, so the window is not centered on it.
C2_CenteredForFourAndFive ==
    (pc = "returned" /\ seq_len >= 1) =>
        \A k \in 0..(seq_len - 1) :
            /\ context_length \in {4, 5} =>
                  /\ Window(result, k)[3].frame = k + 1
                  /\ 2 - (context_length - 3) \in {0, 1}
            /\ context_length \in 1..3 =>
                  \A j \in 1..context_length : Window(result, k)[j].frame <= k + 1

C2_Witness ==
    /\ pc = "returned"
    /\ seq_len = 3
    /\ context_length = 4
    /\ Frames(Window(result, 1)) = <<1, 1, 2, 3>>

\* C3: for seq_len >= 1 and context_length in 1..5 the call completes and the
\* batch has seq_len windows of context_length frames each, of the input's
\* channel/height/width.
C3_CompletesWithShape ==
    (seq_len >= 1 /\ context_length \in 1..5 /\ pc # "idle") =>
        /\ pc # "error"
        /\ pc \in {"call", "pad", "loop", "returned", "written"}
        /\ pc = "loop" => i \in 0..seq_len
        /\ pc = "returned" =>
              /\ result.shape = <<seq_len, context_length>> \o img_shape
              /\ Len(heap[result.storage]) = seq_len * context_length
              /\ \A k \in 0..(seq_len - 1) :
                    /\ Len(Window(result, k)) = context_length
                    /\ \A j \in 1..context_length :
                          Window(result, k)[j].frame \in 1..seq_len

C3_Witness ==
    /\ pc = "returned"
    /\ seq_len = 2
    /\ context_length = 1
    /\ result.shape = <<2, 1, 3, 2, 3>>
    /\ Len(heap[result.storage]) = 2

\* C4 as stated: for every accepted context_length window 0 begins with
\* min(context_length, 3) copies of the first frame and window seq_len - 1
\* ends with the last frame, its trailing pad entries copies of it.
C4_EdgesRepeatEveryLength ==
    (pc = "returned" /\ seq_len >= 1 /\ context_length >= 1) =>
        /\ \A j \in 1..Min(context_length, 3) : IsFrame(Window(result, 0)[j], 1)
        /\ IsFrame(Window(result, seq_len - 1)[context_length], seq_len)
        /\ \A j \in 1..context_length :
              (seq_len - 1) + j > seq_len + 2 =>
                  IsFrame(Window(result, seq_len - 1)[j], seq_len)

\* C4 amended: window 0 begins with min(context_length, 3) copies of the
\* first frame for every accepted context_length; window seq_len - 1 ends
\* with the last frame and its pad copies when context_length >= 3, and for
\* context_length 1 or 2 its final entry is frame
\* max(0, seq_len + context_length - 4).
C4_EdgesRepeatFromThree ==
    (pc = "returned" /\ seq_len >= 1 /\ context_length >= 1) =>
        /\ \A j \in 1..Min(context_length, 3) : Window(result, 0)[j].frame = 1
        /\ context_length >= 3 =>
              /\ Window(result, seq_len - 1)[context_length].frame = seq_len
              /\ \A j \in 1..context_length :
                    (seq_len - 1) + j > seq_len + 2 =>
                        Window(result, seq_len - 1)[j].frame = seq_len
        /\ context_length < 3 =>
              Window(result, seq_len - 1)[context_length].frame =
                  Max(0, seq_len + context_length - 4) + 1

C4_Witness ==
    /\ pc = "returned"
    /\ seq_len = 2
    /\ context_length = 5
    /\ Frames(Window(result, 0)) = <<1, 1, 1, 2, 2>>
    /\ Frames(Window(result, 1)) = <<1, 1, 2, 2, 2>>

\* C5: with context_length <= 0 and seq_len >= 1 the call ends in an error
\* raised before any output array is allocated, and no batch is returned.
C5_NonPositiveRejected ==
    (Terminal /\ seq_len >= 1 /\ context_length <= 0) =>
        /\ pc = "error"
        /\ train_seq = Null
        /\ result = Null

\* C6: with context_length > seq_len + 4 the call is rejected by a check of
\* context_length against the padded length, not by a fault raised in the
\* windowing loop, and no batch is returned.
C6_TooLongRejectedByValidation ==
    (Terminal /\ seq_len >= 1 /\ context_length > seq_len + 4) =>
        /\ pc = "error"
        /\ raisedAt # "store"
        /\ train_seq = Null
        /\ result = Null

\* C7: whether the call returns or fails, the input sequence is the same
\* before and after it, and the returned batch is a new array: a later write
\* to it leaves the input as it was.
C7_InputUntouched ==
    pc # "idle" =>
        /\ heap[img_seq.storage] = img0
        /\ seq_len = Len(img0)
        /\ result # Null => result.storage # img_seq.storage

C7_Witness ==
    /\ pc = "written"
    /\ seq_len = 2
    /\ \E k \in 1..Len(heap[result.storage]) : heap[result.storage][k].frame = 0
    /\ heap[img_seq.storage] = img0

\* C8: the returned batch has the input's dtype and device, and every frame
\* in it carries the values of the input frame it was copied from.
C8_DTypeDeviceValuesKept ==
    (pc = "returned" /\ seq_len >= 1 /\ context_length >= 1) =>
        /\ result.dtype = img_seq.dtype
        /\ result.device = img_seq.device
        /\ \A k \in 1..Len(heap[result.storage]) :
              LET e == heap[result.storage][k]
              IN  e.frame >= 1 => e.val = img0[e.frame].val

\* C9: __len__ is the num_batches given at construction (1 when none was
\* given) in every state, whatever the reader yields, and each successful
\* __next__ returns the one sequence at batch index 0 of the reader's step.
C9_FixedLenFirstSequence ==
    pc = "idle" =>
        /\ kwargs = {} => __len__ = 1
        /\ \A v \in kwargs : __len__ = v
        /\ ret # <<>> =>
              /\ fetched # <<>>
              /\ Len(fetched) = batch_size
              /\ ret = fetched[1]

C9_Witness ==
    /\ pc = "idle"
    /\ stopped
    /\ kwargs = {}
    /\ Len(steps) = 2
    /\ __len__ = 1
    /\ batch_size = 2
    /\ fetched[1] # fetched[2]
    /\ ret = fetched[1]

\* C10: for seq_len >= 1 and context_length > 5 no batch is ever returned:
\* the loop stores complete windows for positions 0 .. seq_len + 4 -
\* context_length and raises at the first position whose slice is short;
\* no short or zero-filled window is stored.
C10_LongContextFailsInLoop ==
    (seq_len >= 1 /\ context_length > 5 /\ pc # "idle") =>
        LET failAt == Max(0, seq_len + 5 - context_length)
        IN  /\ pc \notin {"returned", "written"}
            /\ result = Null
            /\ failAt < seq_len
            /\ pc = "loop" =>
                  /\ i <= failAt
            /\ pc = "error" =>
                  /\ raisedAt = "store"
                  /\ err = "RuntimeError"
                  /\ i = failAt
                  /\ Len(Slice(heap[padded_seq.storage], i, context_length))
                        < context_length
                  /\ \A k \in 0..(seq_len - 1) :
                        IF k < failAt
                        THEN Frames(Window(train_seq, k)) =
                                 [j \in 1..context_length |-> PaddedInput[k + j].frame]
                        ELSE \A j \in 1..context_length :
                                 Window(train_seq, k)[j] = ZeroElem

C10_Witness ==
    /\ pc = "error"
    /\ seq_len = 3
    /\ context_length = 6
    /\ i = 2
    /\ Frames(Window(train_seq, 1)) = <<1, 1, 2, 3, 3, 3>>
    /\ Frames(Window(train_seq, 2)) = <<0, 0, 0, 0, 0, 0>>

====
